---- MODULE Spec2Model ----
(***************************************************************************)
(* State-machine model of src/untitled.py: ring layout and opposite pairs, *)
(* phase offsets of the white shuttle dots, the elliptical orbit, the      *)
(* overlap test against the mouse-driven green dot, the debounced beep and *)
(* the frame loop with its escape exit.                                    *)
(*                                                                         *)
(* Units.  Time is counted in ticks of 0.02 s; the value of tick k is the  *)
(* double nearest to k/50, so 0.22 s is 11 ticks and the sentinel -1.0 is  *)
(* -50 ticks.  Lengths are hundredths of a pixel.  Angles and phases are   *)
(* exact fractions of a turn, <<numerator, denominator>>; a cosine is read  *)
(* from a one-degree table, scaled by 10000, and interpolated linearly.     *)
(* Python indices are kept 0-based; a sequence holds index i at i + 1.     *)
(***************************************************************************)
EXTENDS Integers, Sequences, FiniteSets, TLC

\* ------------------------------------------------------------------ bounds
\* Target counts 0..MaxTargets are explored besides the script's own 20.
MaxTargets == 8
\* phase_spread is a multiple of 1/SpreadDen, from -1/SpreadDen to 1 + 1/SpreadDen.
SpreadDen == 2
\* Last clock reading explored, in ticks (46 ticks = 0.92 s).
MaxTime == 46
\* Largest number of ticks between two successive frames.
MaxStep == 2

\* ------------------------------------------------------- program constants
DefaultTargets == 20
DefaultRingRadius == 25000
EllipseScalePct == 35
SpeedNum == 3
SpeedDen == 1000
OverlapThresh == 3600
DeltaTicks == 11
NeverBeeped == -50
GreenPairIndex == 0
FullTurn == 360

\* ------------------------------------------------------------ arithmetic
Max(x, y) == IF x >= y THEN x ELSE y

Min(x, y) == IF x <= y THEN x ELSE y

\* n / d rounded to the nearest integer (d > 0).
RoundDiv(n, d) == (2 * n + d) \div (2 * d)

\* 10000 * cos(k degrees) for k = 0..90.
CosTab ==
  << 10000, 9998, 9994, 9986, 9976, 9962, 9945, 9925, 9903, 9877,
     9848, 9816, 9781, 9744, 9703, 9659, 9613, 9563, 9511, 9455,
     9397, 9336, 9272, 9205, 9135, 9063, 8988, 8910, 8829, 8746,
     8660, 8572, 8480, 8387, 8290, 8192, 8090, 7986, 7880, 7771,
     7660, 7547, 7431, 7314, 7193, 7071, 6947, 6820, 6691, 6561,
     6428, 6293, 6157, 6018, 5878, 5736, 5592, 5446, 5299, 5150,
     5000, 4848, 4695, 4540, 4384, 4226, 4067, 3907, 3746, 3584,
     3420, 3256, 3090, 2924, 2756, 2588, 2419, 2250, 2079, 1908,
     1736, 1564, 1392, 1219, 1045, 872, 698, 523, 349, 175, 0 >>

CosDeg(d) ==
  LET r == d % FullTurn
  IN  IF r <= 90 THEN CosTab[r + 1]
      ELSE IF r <= 180 THEN 0 - CosTab[(180 - r) + 1]
      ELSE IF r <= 270 THEN 0 - CosTab[(r - 180) + 1]
      ELSE CosTab[(FullTurn - r) + 1]

\* The scale of CosTab: cos(0) = 1.
ScaleTrig == CosTab[1]

\* ScaleTrig * cos(2 pi frac + shift degrees), frac = <<num, den>> of a turn.
\* The value rem/den of the way from c0 to c1.
Interp(c0, c1, rem, den) == c0 + RoundDiv((c1 - c0) * rem, den)

CosShifted(frac, shift) ==
  LET q   == FullTurn * frac[1]
      deg == (q \div frac[2]) + shift
  IN  Interp(CosDeg(deg), CosDeg(deg + 1), q % frac[2], frac[2])

CosTurn(frac) == CosShifted(frac, 0)

SinTurn(frac) == CosShifted(frac, 270)

\* ------------------------------------------------------------ ring layout
\* np.linspace(0, 2*pi, n, endpoint=False), as fractions of a turn.
Angles(n) == [k \in 1..n |-> << k - 1, n >>]

\* math.cos(angles[i]) < 0 as the doubles decide it: at a quarter turn the
\* double cosine is 6.1e-17 (not negative), at three quarters -1.8e-16
\* (negative); elsewhere the sign is that of the exact cosine.
CosNegative(i, n) == 4 * i > n /\ 4 * i <= 3 * n

\* The sign of ring_radius * math.cos(angles[k]): target k's x-coordinate.
TargetXSign(k, n, r) ==
  IF r = 0 THEN 0
  ELSE IF CosNegative(k, n) THEN (IF r > 0 THEN -1 ELSE 1)
  ELSE (IF r > 0 THEN 1 ELSE -1)

TargetPos(k, n, r) ==
  LET ang == Angles(n)[k + 1]
  IN  << RoundDiv(r * CosTurn(ang), ScaleTrig), RoundDiv(r * SinTurn(ang), ScaleTrig) >>

BuildTargets(n, r) == [k \in 1..n |-> TargetPos(k - 1, n, r)]

\* ------------------------------------------------------------------ pairs
NumPairs(n) == n \div 2

NumWhiteDots(n) == NumPairs(n) - 1

\* Mutant of AvailablePairs: the green pair is not excluded.
AvailablePairsWithGreen(n) == [k \in 1..NumPairs(n) |-> k - 1]

\* [i for i in range(num_pairs) if i != green_pair_index]
AvailablePairs(n) ==
  LET np == NumPairs(n)
  IN  [k \in 1..Max(0, np - 1) |-> IF k - 1 < GreenPairIndex THEN k - 1 ELSE k]

\* Python's s[:m]: the first m elements, or all but the last -m when m < 0.
PySlicePrefix(s, m) ==
  LET len == IF m >= 0 THEN Min(m, Len(s)) ELSE Max(0, Len(s) + m)
  IN  [k \in 1..len |-> s[k]]

WhitePairIndices(n) == PySlicePrefix(AvailablePairs(n), NumWhiteDots(n))

\* ---------------------------------------------------------- phase schedule
\* Mutant of BasePhases: every dot starts at phase 0.0, whichever side its
\* target is on.
BasePhasesAllZero(wpi, n) == [j \in 1..Len(wpi) |-> 0]

\* base phase in halves of a cycle: 0 -> 0.0, 1 -> 0.5
BasePhases(wpi, n) == [j \in 1..Len(wpi) |-> IF CosNegative(wpi[j], n) THEN 0 ELSE 1]

Nwd(shuttles) == Max(1, Len(shuttles))

\* Denominator of the phase offsets: offsets are multiples of 1/(2*SpreadDen*nwd).
PhaseDen(nwd) == 2 * SpreadDen * nwd

\* Mutant of PhaseOffset: the gap is accumulated from a 1-based index.
PhaseOffsetOneBased(base, j, spread, nwd) ==
  (base * SpreadDen * nwd + (j + 1) * 2 * spread) % (2 * SpreadDen * nwd)

\* (base_phases[j] + j * gap) % 1.0 with gap = phase_spread / nwd, as a
\* numerator over PhaseDen(nwd); j is the 0-based index.
PhaseOffset(base, j, spread, nwd) ==
  (base * SpreadDen * nwd + j * 2 * spread) % PhaseDen(nwd)

\* -------------------------------------------------------------- geometry
\* b = a * float(ellipse_b_scale)
MinorAxis(a) == RoundDiv(a * EllipseScalePct, 100)

\* (t * white_speeds[i] + phase_offsets[i]) % 1.0 as <<numerator, denominator>>;
\* t in ticks, the offset a numerator over PhaseDen(nwd).
ShuttlePhase(t, offset, nwd) ==
  LET den == SpeedDen * PhaseDen(nwd)
  IN  << (SpeedNum * t * PhaseDen(nwd) + SpeedDen * offset) % den, den >>

\* x = ex * c - ey * s; y = ex * s + ey * c
Rotate(ex, ey, c, s) ==
  << RoundDiv(ex * c - ey * s, ScaleTrig), RoundDiv(ex * s + ey * c, ScaleTrig) >>

ellipse_position(phase, theta, a, b) ==
  Rotate(RoundDiv(a * CosTurn(phase), ScaleTrig), RoundDiv(b * SinTurn(phase), ScaleTrig),
         CosTurn(theta), SinTurn(theta))

Abs(x) == IF x >= 0 THEN x ELSE 0 - x

\* distance(p1, p2) < d: math.hypot(dx, dy) < d, the squares taken only when
\* both differences are below d.
DistanceBelow(p1, p2, d) ==
  LET dx == p1[1] - p2[1]
      dy == p1[2] - p2[2]
  IN  /\ Abs(dx) < d
      /\ Abs(dy) < d
      /\ dx * dx + dy * dy < d * d

\* any(distance(dot.pos, green_dot.pos) < overlap_thresh for dot, _ in white_shuttles)
Overlap(dots, green) ==
  \E j \in 1..Len(dots) : DistanceBelow(dots[j], green, OverlapThresh)

\* ------------------------------------------------------------ cue trigger
\* The starts `last` (ticks, 0..80) of an 11-tick interval for which the double
\* subtraction (last + 11)/50 - last/50 comes out below the double 0.22, e.g.
\* 0.88 - 0.66 = 0.21999999999999997.
ShortIntervalStarts ==
  { 4, 7, 10, 13, 14, 18, 19, 20, 24, 25, 26, 27, 28, 30, 31, 32, 33, 34,
    36, 37, 38, 39, 40, 46, 47, 48, 49, 50, 51, 52, 53, 54, 55, 56, 58, 59,
    60, 61, 62, 63, 64, 65, 66, 67, 68, 71, 72, 73, 74, 75, 76, 77, 78, 79, 80 }

\* now - last_beep_time >= 0.22 in double arithmetic
DebounceElapsed(now, last) ==
  \/ now - last > DeltaTicks
  \/ now - last = DeltaTicks /\ last \notin ShortIntervalStarts

\* Mutants of CueCondition: a strict comparison; no overlap test (a trailing
\* cue); no test that the beep exists.
CueConditionStrict(b, overlap, now, last) ==
  b # "none" /\ overlap /\ now - last > DeltaTicks

CueConditionTrailing(b, overlap, now, last) ==
  b # "none" /\ DebounceElapsed(now, last)

CueConditionNoBeepCheck(b, overlap, now, last) ==
  overlap /\ DebounceElapsed(now, last)

\* beep is not None and overlap and (now - last_beep_time >= 0.22)
CueCondition(b, overlap, now, last) ==
  b # "none" /\ overlap /\ DebounceElapsed(now, last)

\* ------------------------------------------------------------------ state
VARIABLES
  pc,                  \* "start" | "running" | "terminated" | "error"
  error,               \* the exception that ended the script, or "none"
  num_targets,         \* configuration (line 33)
  phase_spread,        \* configuration (line 38), numerator over SpreadDen
  ring_radius,         \* configuration (line 40)
  sound_ok,            \* did `from psychopy import sound` succeed
  beep,                \* "sound" or "none" (None)
  targets,             \* positions of the target circles
  white_pair_indices,  \* pair indices of the white dots
  white_shuttles,      \* theta of each white dot's pair, a fraction of a turn
  base_phases,         \* 0 -> 0.0, 1 -> 0.5
  phase_offsets,       \* numerators over PhaseDen(Nwd(white_shuttles))
  green_pair,          \* <<idx_a, idx_b>>, or <<>> before it is computed
  clock,               \* latest reading of clock.getTime(), ticks
  last_beep_time,      \* ticks; NeverBeeped is the initial -1.0
  dot_pos,             \* dot.pos of each white dot
  green_pos,           \* green_dot.pos
  frame,               \* what the latest completed loop iteration did
  hist                 \* history of the run: frames so far

vars == << pc, error, num_targets, phase_spread, ring_radius, sound_ok, beep,
           targets, white_pair_indices, white_shuttles, base_phases,
           phase_offsets, green_pair, clock, last_beep_time, dot_pos,
           green_pos, frame, hist >>

config == << num_targets, phase_spread, ring_radius >>

setup == << sound_ok, beep, targets, white_pair_indices, white_shuttles,
            base_phases, phase_offsets, green_pair >>

NoFrame ==
  [kind |-> "none", t |-> 0, now |-> 0, overlap |-> FALSE, played |-> FALSE,
   last_in |-> NeverBeeped, draws |-> << >>, flipped |-> FALSE]

NoHist == [steady |-> TRUE, overlaps |-> 0, cues |-> 0]

TargetCounts == (0..MaxTargets) \cup {DefaultTargets}

Spreads == (0 - 1)..(SpreadDen + 1)

RingRadii == {0 - DefaultRingRadius, 0, DefaultRingRadius}

InitWith(n, s, r) ==
  /\ pc = "start"
  /\ error = "none"
  /\ num_targets = n
  /\ phase_spread = s
  /\ ring_radius = r
  /\ sound_ok = FALSE
  /\ beep = "none"
  /\ targets = << >>
  /\ white_pair_indices = << >>
  /\ white_shuttles = << >>
  /\ base_phases = << >>
  /\ phase_offsets = << >>
  /\ green_pair = << >>
  /\ clock = 0
  /\ last_beep_time = NeverBeeped
  /\ dot_pos = << >>
  /\ green_pos = << 0, 0 >>
  /\ frame = NoFrame
  /\ hist = NoHist

\* Any configuration the parameter block can be edited to.
Init ==
  \E n \in TargetCounts, s \in Spreads, r \in RingRadii : InitWith(n, s, r)

\* The configuration the script ships with: 20 targets, spread 1.0, radius 250.
InitDefault == InitWith(DefaultTargets, SpreadDen, DefaultRingRadius)

\* ------------------------------------------------------------------ setup
\* Lines 20-147: everything before the main loop.
Setup(import_ok, create_ok) ==
  LET n    == num_targets
      wpi  == WhitePairIndices(n)
      shut == [j \in 1..Len(wpi) |-> Angles(n)[wpi[j] + 1]]
      base == BasePhases(wpi, n)
      nwd  == Nwd(shut)
  IN  /\ pc = "start"
      /\ sound_ok' = import_ok
      /\ beep' = IF import_ok /\ create_ok THEN "sound" ELSE "none"
      /\ targets' = BuildTargets(n, ring_radius)
      /\ white_pair_indices' = wpi
      /\ white_shuttles' = shut
      /\ base_phases' = base
      /\ IF nwd > Len(base)
         THEN \* base_phases[j] for j in range(nwd): IndexError at line 119
              /\ pc' = "error"
              /\ error' = "IndexError"
              /\ phase_offsets' = << >>
              /\ green_pair' = << >>
              /\ dot_pos' = << >>
         ELSE /\ pc' = "running"
              /\ error' = "none"
              /\ phase_offsets' =
                   [j \in 1..nwd |-> PhaseOffset(base[j], j - 1, phase_spread, nwd)]
              /\ green_pair' =
                   << GreenPairIndex, (GreenPairIndex + NumPairs(n)) % n >>
              /\ dot_pos' = [j \in 1..Len(shut) |-> << 0, 0 >>]
      /\ clock' = 0
      /\ last_beep_time' = NeverBeeped
      /\ UNCHANGED << config, green_pos, frame, hist >>

\* -------------------------------------------------------------- main loop
\* event.getKeys(keyList=["escape", "esc"]) is truthy
ExitRequested(keys) == keys # << >>

\* Mutant of ExitLoop: the targets and markers are drawn before the keys are
\* looked at.
ExitLoopAfterDrawing ==
  /\ pc' = "terminated"
  /\ frame' = [frame EXCEPT !.draws = << "targets", "markers" >>]
  /\ UNCHANGED << error, config, setup, clock, last_beep_time, dot_pos,
                  green_pos, hist >>

\* running = False; break; win.close(); core.quit()
ExitLoop ==
  /\ pc' = "terminated"
  /\ UNCHANGED << error, config, setup, clock, last_beep_time, dot_pos,
                  green_pos, frame, hist >>

\* The white dots' positions at clock reading t (lines 175-178).
ShuttlePositions(t) ==
  LET nwd == Nwd(white_shuttles)
  IN  [j \in 1..Len(white_shuttles) |->
         ellipse_position(ShuttlePhase(t, phase_offsets[j], nwd),
                          white_shuttles[j], ring_radius, MinorAxis(ring_radius))]

DrawOrder == << "targets", "markers", "shuttles", "pointer" >>

\* Is some multiple of 0.22 s strictly between two clock readings (so that no
\* frame sampled it).  hist.steady records that every frame so far overlapped,
\* the first was at time 0, each later one came after its predecessor, and no
\* multiple of 0.22 s went unsampled.
SkipsMultiple(from, to) ==
  \E m \in (from + 1)..(to - 1) : m % DeltaTicks = 0

\* mouse.getPos(): where the user holds the pointer in this frame.
MouseInputs == {"centre", "on_last_dot", "beside_first_dot"}

\* The pointer positions explored at every tick: off every dot, on a dot.
MouseInputsTiming == {"centre", "on_last_dot"}

\* Ticks between the two clock readings of one frame (lines 174 and 186):
\* the same tick or the next.
Lags == {0, 1}

\* The coordinates mouse.getPos() returns for that choice; "beside" is 54 px
\* to the right of the first dot, outside its overlap radius of 36 px.
MousePos(mouse, dots) ==
  IF Len(dots) = 0 \/ mouse = "centre" THEN << 0, 0 >>
  ELSE IF mouse = "on_last_dot" THEN dots[Len(dots)]
  ELSE << dots[1][1] + OverlapThresh + (OverlapThresh \div 2), dots[1][2] >>

\* Lines 168-191: one full frame, t read d1 ticks after the previous reading
\* and now read d2 ticks after t, the pointer held at `mouse`.
RunFrame(d1, d2, mouse) ==
  LET t   == clock + d1
      now == t + d2
  IN  /\ now <= MaxTime
      /\ \E dots \in {ShuttlePositions(t)} :
           \E mpos \in {MousePos(mouse, dots)} :
             \E overlap \in {Overlap(dots, mpos)} :
               \E fire \in {CueCondition(beep, overlap, now, last_beep_time)} :
                 /\ dot_pos' = dots
                 /\ green_pos' = mpos
                 /\ clock' = now
                 /\ last_beep_time' = IF fire THEN now ELSE last_beep_time
                 /\ frame' = [kind |-> "full", t |-> t, now |-> now,
                              overlap |-> overlap, played |-> fire,
                              last_in |-> last_beep_time,
                              draws |-> DrawOrder, flipped |-> TRUE]
                 /\ hist' = [steady |-> /\ hist.steady
                                        /\ overlap
                                        /\ IF frame.kind = "none" THEN now = 0
                                           ELSE now > clock /\ ~SkipsMultiple(clock, now),
                             overlaps |-> Min(2, hist.overlaps + (IF overlap THEN 1 ELSE 0)),
                             cues |-> Min(2, hist.cues + (IF fire THEN 1 ELSE 0))]
      /\ pc' = "running"
      /\ UNCHANGED << error, config, setup >>

LoopIteration(keys, d1, d2, mouse) ==
  /\ pc = "running"
  /\ IF ExitRequested(keys) THEN ExitLoop ELSE RunFrame(d1, d2, mouse)

KeyInputs == {<< >>, << "escape" >>}

SetupStep == \E import_ok \in BOOLEAN, create_ok \in BOOLEAN : Setup(import_ok, create_ok)

FrameStep ==
  \E keys \in KeyInputs :
    IF ExitRequested(keys) THEN LoopIteration(keys, 0, 0, "centre")
    ELSE \E d1 \in 0..MaxStep, d2 \in Lags, mouse \in MouseInputsTiming :
           LoopIteration(keys, d1, d2, mouse)

\* Frames one debounce interval apart, for the survey of all configurations.
CoarseFrameStep ==
  \E keys \in KeyInputs :
    IF ExitRequested(keys) THEN LoopIteration(keys, 0, 0, "centre")
    ELSE \E d1 \in {0, DeltaTicks}, mouse \in MouseInputs :
           LoopIteration(keys, d1, 0, mouse)

Next == SetupStep \/ CoarseFrameStep

NextTiming == SetupStep \/ FrameStep

\* Every configuration, frames 0.22 s apart.
Spec == Init /\ [][Next]_vars

\* The shipped configuration, frames at every tick.
SpecTiming == InitDefault /\ [][NextTiming]_vars

\* ---------------------------------------------------------------- claims
AudioAvailable == beep # "none"

FullFrame == frame.kind = "full"

SetupRan == pc # "start"

EvenTargets == num_targets % 2 = 0

\* C1: with the beep available, a frame plays the cue and sets last_beep_time
\* to now exactly when it overlaps and the last cue is "never" (-1.0) or at
\* least 0.22 s old; otherwise nothing is played and last_beep_time is kept.
C1_CueRule ==
  (FullFrame /\ AudioAvailable) =>
    /\ frame.played <=>
         (frame.overlap /\ (\/ frame.last_in = NeverBeeped
                            \/ DebounceElapsed(frame.now, frame.last_in)))
    /\ last_beep_time = (IF frame.played THEN frame.now ELSE frame.last_in)

\* A cue re-fired exactly 0.22 s after the previous one.
C1_Witness ==
  /\ FullFrame /\ AudioAvailable /\ frame.played
  /\ frame.last_in # NeverBeeped
  /\ frame.now - frame.last_in = DeltaTicks

\* C2 (as claimed): overlap on every frame from a first frame at t = 0, every
\* multiple of 0.22 s sampled: a frame plays the cue exactly when its time is a
\* multiple of 0.22 s (0, 0.22, 0.44, ...), the first one included.
C2_CuesAtMultiples ==
  (FullFrame /\ AudioAvailable /\ hist.steady) =>
    (frame.played <=> frame.now % DeltaTicks = 0)

\* C3: a frame without overlap never plays a cue and leaves last_beep_time
\* alone, however old the last cue is; a run with exactly one overlapping
\* frame has exactly one cue, and there are never more cues than overlapping
\* frames.
C3_NoTrailingCue ==
  /\ (FullFrame /\ ~frame.overlap) =>
       (~frame.played /\ last_beep_time = frame.last_in)
  /\ (AudioAvailable /\ hist.overlaps = 1) => hist.cues = 1
  /\ hist.cues <= hist.overlaps

\* One overlapping frame, its cue, then a frame without overlap more than
\* 0.22 s later: no second cue.
C3_Witness ==
  /\ FullFrame /\ AudioAvailable /\ ~frame.overlap
  /\ hist.overlaps = 1 /\ hist.cues = 1
  /\ frame.now - last_beep_time > DeltaTicks

\* C4 (as claimed): with an odd target count, a spread outside [0, 1] or a
\* non-positive ring radius the script ends in an error before the loop: no
\* frame is ever run.
BadConfig ==
  \/ ~EvenTargets
  \/ phase_spread < 0
  \/ phase_spread > SpreadDen
  \/ ring_radius <= 0

C4_ConfigErrorsRejected ==
  BadConfig => (frame.kind = "none" /\ pc # "terminated")

\* C5: without a beep (import failed, or creating the sound failed) no frame
\* plays a cue, last_beep_time keeps its initial -1.0, and the loop runs its
\* frames without an error.
C5_SilentWithoutAudio ==
  /\ (SetupRan /\ ~sound_ok) => ~AudioAvailable
  /\ (SetupRan /\ ~AudioAvailable) =>
       /\ ~frame.played
       /\ hist.cues = 0
       /\ last_beep_time = NeverBeeped
       /\ pc \in {"running", "terminated"}
       /\ error = "none"

\* The sound module was imported but the beep could not be created; frames
\* overlap again and again, long after 0.22 s.
C5_Witness ==
  /\ sound_ok /\ ~AudioAvailable /\ pc = "running"
  /\ FullFrame /\ frame.overlap /\ hist.overlaps = 2
  /\ frame.now > 2 * DeltaTicks
  /\ frame.draws = DrawOrder /\ frame.flipped

\* C6: the loop starts Running with no frame run; the step that terminates it
\* changes nothing but the loop state (no draw, no pointer sample, no cue, no
\* change of last_beep_time, no flip), and once Terminated nothing changes.
C6_ExitIsTerminal ==
  [][ /\ (pc = "start" /\ pc' # "error") => (pc' = "running" /\ frame'.kind = "none")
      /\ pc' = "terminated" =>
           UNCHANGED << error, config, setup, clock, last_beep_time, dot_pos,
                        green_pos, frame, hist >>
      /\ pc = "terminated" => pc' = "terminated" ]_vars

\* Terminated after a frame that played a cue.
C6_Witness ==
  /\ pc = "terminated" /\ FullFrame /\ frame.played
  /\ last_beep_time = frame.now

\* C7: for an even target count the pairs (i, i + N/2), i < N/2, are N/2
\* disjoint pairs covering 0..N-1; the white dots are on all pairs but the
\* green one, in ascending order, one dot each, each dot's ellipse running
\* between its pair's two targets; the green pair is (g, g + N/2).
PairOf(i) == {i, i + NumPairs(num_targets)}

AllPairs == {PairOf(i) : i \in 0..(NumPairs(num_targets) - 1)}

C7_PairsPartitionTargets ==
  (SetupRan /\ EvenTargets) =>
    LET np == num_targets \div 2
        M  == Len(white_pair_indices)
    IN  /\ Cardinality(AllPairs) = np
        /\ \A p \in AllPairs : Cardinality(p) = 2
        /\ \A p, q \in AllPairs : p # q => p \cap q = {}
        /\ UNION AllPairs = 0..(num_targets - 1)
        /\ M = np - 1 \/ (np = 0 /\ M = 0)
        /\ Len(white_shuttles) = M
        /\ {white_pair_indices[j] : j \in 1..M} = (0..(np - 1)) \ {GreenPairIndex}
        /\ \A j \in 1..(M - 1) : white_pair_indices[j] < white_pair_indices[j + 1]
        /\ \A j \in 1..M :
             LET i == white_pair_indices[j]
                 b == MinorAxis(ring_radius)
             IN  /\ ellipse_position(<< 0, 1 >>, white_shuttles[j], ring_radius, b)
                      = targets[i + 1]
                 /\ ellipse_position(<< 1, 2 >>, white_shuttles[j], ring_radius, b)
                      = targets[i + np + 1]
        /\ pc = "running" =>
             /\ green_pair = << GreenPairIndex, GreenPairIndex + np >>
             /\ Cardinality({p \in AllPairs : p = {green_pair[1], green_pair[2]}}) = 1

\* The shipped 20 targets: 10 pairs, 9 white dots.
C7_Witness ==
  /\ pc = "running" /\ num_targets = DefaultTargets
  /\ Len(white_shuttles) = 9 /\ green_pair = << 0, 10 >>

\* C8: for a spread in [0, 1] every offset is (base_j + j * spread / M) mod 1
\* and lies in [0, 1); at spread 0 it is the base itself; at spread 1 the
\* contribution added to the base is j / M, successive ones 1/M apart.
C8_PhaseOffsets ==
  (pc = "running" /\ phase_spread >= 0 /\ phase_spread <= SpreadDen) =>
    LET M   == Len(white_shuttles)
        den == 2 * SpreadDen * M
    IN  /\ Len(phase_offsets) = M
        /\ \A j \in 1..M :
             LET off  == phase_offsets[j]
                 base == base_phases[j]
             IN  /\ base \in {0, 1}
                 /\ off >= 0 /\ off < den
                 \* off/den - base/2 - (j-1)*spread/(SpreadDen*M) is a whole number
                 /\ (off - base * SpreadDen * M - 2 * (j - 1) * phase_spread) % den = 0
                 /\ phase_spread = 0 => 2 * off = base * den
                 /\ phase_spread = SpreadDen =>
                      (M * (2 * off - base * den)) % (M * 2 * den) = (j - 1) * 2 * den
                        \* (off/den - base/2) mod 1 = (j-1)/M

\* 20 targets at spread 1: the fifth dot (base 0.5) has offset 0.5 + 4/9 =
\* 17/18, the sixth (base 0.0) has 5/9.
C8_Witness ==
  /\ pc = "running" /\ num_targets = DefaultTargets /\ phase_spread = SpreadDen
  /\ base_phases[5] = 1 /\ base_phases[6] = 0
  /\ 18 * phase_offsets[5] = 17 * PhaseDen(9)
  /\ 9 * phase_offsets[6] = 5 * PhaseDen(9)

\* C9: 20 targets, spread 0, radius 250: in a frame at elapsed time 0 each of
\* the 9 white dots is at the target of its pair whose x-coordinate is
\* negative, the other target's being positive; the base phase is 0 exactly
\* when that is target i.
C9_LeftStart ==
  (/\ num_targets = DefaultTargets /\ phase_spread = 0
   /\ ring_radius = DefaultRingRadius /\ FullFrame /\ frame.t = 0) =>
    /\ Len(dot_pos) = 9
    /\ \A j \in 1..Len(dot_pos) :
         LET i     == white_pair_indices[j]
             left  == IF base_phases[j] = 0 THEN i ELSE i + 10
             right == IF base_phases[j] = 0 THEN i + 10 ELSE i
         IN  /\ dot_pos[j] = targets[left + 1]
             /\ TargetXSign(left, num_targets, ring_radius) = 0 - 1
             /\ TargetXSign(right, num_targets, ring_radius) = 1
             /\ targets[left + 1][1] <= 0
             /\ base_phases[j] = 0 <=> targets[i + 1][1] < 0

\* The frame at t = 0 with the dot of the vertical pair (5, 15) at target 15
\* and the dot of pair (9, 19) at target 9.
C9_Witness ==
  /\ num_targets = DefaultTargets /\ phase_spread = 0
  /\ ring_radius = DefaultRingRadius /\ FullFrame /\ frame.t = 0
  /\ dot_pos[5] = targets[16] /\ dot_pos[5] = << 0, 0 - DefaultRingRadius >>
  /\ dot_pos[9] = targets[10] /\ dot_pos[9][1] < 0

\* C10 (as claimed): for every even target count >= 2 (spread and radius
\* valid) setup completes and leaves one phase offset per white dot, N/2 - 1
\* of them.
C10_SetupCompletes ==
  (SetupRan /\ ~BadConfig /\ num_targets >= 2) =>
    /\ pc # "error"
    /\ Len(phase_offsets) = Len(white_shuttles)
    /\ Len(white_shuttles) = (num_targets \div 2) - 1

====
